---- MODULE Spec2Model ----
(***************************************************************************)
(* Resilience core of the calendar bot: the circuit breaker of             *)
(* app/utils/circuit_breaker.py, shared by concurrent asyncio callers, and *)
(* the provider fallback chains of app/services/ai_service.py and          *)
(* app/services/multi_llm_service.py.                                      *)
(*                                                                         *)
(* asyncio is cooperative: a coroutine runs without interruption between   *)
(* two awaits.  A guarded call is therefore two atomic steps, the          *)
(* admission (wrapper entry up to `await func`) and the completion (the    *)
(* return or raise of func and the bookkeeping that follows it).           *)
(***************************************************************************)
EXTENDS Integers, Sequences, FiniteSets, TLC

\* ---------------------------------------------------------------- bounds
NumCallers == 2
MaxCalls == 4
MaxTime == 2
MaxThreshold == 2
MaxTimeout == 2
MaxFallbackCalls == 6
MaxWaits == 1
MaxDatabaseCalls == 3
MaxRetries == 3
MaxRetryCalls == 2
MaxGetConnections == 4

\* ------------------------------------------------------ program constants
DefaultFailThreshold == 5
DefaultRecoveryTimeout == 30
AIServiceFailThreshold == 5
AIServiceRecoveryTimeout == 30
DatabaseFailThreshold == 3
DatabaseRecoveryTimeout == 10
DefaultMaxRetries == 3

\* CircuitState
CLOSED == "closed"
OPEN == "open"
HALF_OPEN == "half_open"

CircuitState == {CLOSED, OPEN, HALF_OPEN}

\* Optional[...] values: None is the empty sequence, a value v is <<v>>.
None == <<>>
Some(v) == <<v>>

\* Exceptions the wrapped operation can raise.  MonitoredError is a subclass
\* of Exception that a breaker may name as expected_exception;
\* OtherException is an Exception outside that class; CancelledError derives
\* from BaseException only.
MonitoredError == "MonitoredError"
OtherException == "OtherException"
CancelledError == "CancelledError"
CircuitBreakerOpenError == "CircuitBreakerOpenError"

AIServiceError == "AIServiceError"
ConfigurationError == "ConfigurationError"
ExternalServiceError == "ExternalServiceError"

OperationErrors == {MonitoredError, OtherException, CancelledError}
ExceptionClasses == {"Exception", MonitoredError}

\* the classes above that derive from Exception
Exceptions ==
    {MonitoredError, OtherException, CircuitBreakerOpenError, AIServiceError,
     ConfigurationError, ExternalServiceError}

IsInstanceOfException(e, cls) == e \in Exceptions

\* isinstance(e, cls) for the classes above
IsInstance(e, cls) ==
    \/ cls = "Exception" /\ e \in Exceptions
    \/ cls = e

Callers == 1..NumCallers

VARIABLES
    cb,           \* the CircuitBreaker instance (its fields)
    now,          \* datetime.now(), in seconds
    pc,           \* per caller: "idle" or "awaiting" (suspended in `await func`)
    admitted,     \* per caller: the breaker state its current/last call was admitted in
    outcome,      \* per caller: how its last call ended
    thrown,       \* per caller: the error its wrapped operation raised, if any
    calls,        \* number of guarded calls started
    invocations,  \* number of times the wrapped operation was invoked
    consec,       \* monitored failures recorded since the last success or reset
    service,      \* the service whose fallback call is exercised
    configured,   \* the providers whose client / configuration is present
    fpc,          \* the fallback call: "idle" or "awaiting" (a provider in flight)
    preferred,    \* the provider / preferred_provider argument of the call
    providers,    \* the local list `providers` of the call
    current,      \* index in `providers` of the provider in flight, 0 = the preferred try
    attempts,     \* the provider invocations of the call, in order, with their outcome
    last_error,   \* the local variable last_error
    result,       \* what the call returned or raised
    waits,        \* number of idle periods between fallback calls
    db,           \* the module-level instance database_breaker (its fields)
    dpc,          \* a call guarded by database_breaker: "idle" or "awaiting"
    dcalls,       \* number of calls started through database_breaker
    max_retries_setting, \* settings.database.max_retries
    max_retries,  \* the max_retries argument of execute_with_retry
    retries,      \* the local variable retries
    attempt,      \* the loop variable attempt
    retry_last_error, \* the local variable last_error of execute_with_retry
    rpc,          \* execute_with_retry: "idle", "executing" or "sleeping"
    rresult,      \* what execute_with_retry returned or raised
    history,      \* the attempts and sleeps of the call, in order
    raised,       \* the errors the attempts of the call raised, in order
    rcalls,       \* number of execute_with_retry calls started
    method,       \* the repository / manager method whose statement is executed
    pool,         \* DatabaseManager._pool: None or the pool it refers to
    pools_created, \* number of pools aiomysql.create_pool has returned
    gpc,          \* per caller of get_connection: "idle", "creating", "acquiring", "holding"
    conn_pool,    \* per caller: the pool its connection was acquired from, 0 = none
    gcalls        \* number of get_connection calls started

bvars == <<pc, admitted, outcome, thrown>>
fvars == <<service, configured, fpc, preferred, providers, current, attempts,
           last_error, result, waits>>
dvars == <<db, dpc, dcalls>>
rlocals == <<retries, attempt, retry_last_error, rpc, rresult, history, raised>>
rvars == <<max_retries_setting, max_retries, rlocals, rcalls, method>>
pvars == <<pool, pools_created, gpc, conn_pool, gcalls>>
vars == <<cb, now, calls, invocations, consec, bvars, fvars, dvars, rvars, pvars>>

\* CircuitBreaker.__init__; a falsy argument (None or 0) takes the setting
CircuitBreaker(fail_threshold, recovery_timeout, expected_exception) ==
    [ fail_threshold     |-> IF fail_threshold = 0 THEN DefaultFailThreshold
                             ELSE fail_threshold,
      recovery_timeout   |-> IF recovery_timeout = 0 THEN DefaultRecoveryTimeout
                             ELSE recovery_timeout,
      expected_exception |-> expected_exception,
      failure_count      |-> 0,
      last_failure_time  |-> None,
      state              |-> CLOSED ]

ShouldAttemptResetEarly(b, t) ==
    IF b.last_failure_time = None THEN FALSE
    ELSE t - b.last_failure_time[1] >= b.recovery_timeout - 1

\* CircuitBreaker._should_attempt_reset
ShouldAttemptReset(b, t) ==
    IF b.last_failure_time = None THEN FALSE
    ELSE t - b.last_failure_time[1] >= b.recovery_timeout

StatePropertyStaysOpen(b, t) == b

\* CircuitBreaker.state (the property): the breaker after the read
StateProperty(b, t) ==
    IF b.state = OPEN /\ ShouldAttemptReset(b, t)
    THEN [b EXCEPT !.state = HALF_OPEN]
    ELSE b

OnSuccessKeepsState(b) ==
    [b EXCEPT !.failure_count = 0, !.last_failure_time = None]

\* CircuitBreaker._on_success
OnSuccess(b) ==
    LET b1 == [b EXCEPT !.failure_count = 0, !.last_failure_time = None]
    IN  IF b1.state # CLOSED THEN [b1 EXCEPT !.state = CLOSED] ELSE b1

OnFailureKeepsTime(b, t) ==
    LET b1 == [b EXCEPT !.failure_count = @ + 1]
    IN  IF b1.failure_count >= b1.fail_threshold
        THEN [b1 EXCEPT !.state = OPEN]
        ELSE b1

OnFailureCountsTwice(b, t) ==
    LET b1 == [b EXCEPT !.failure_count = @ + 2, !.last_failure_time = Some(t)]
    IN  IF b1.failure_count >= b1.fail_threshold
        THEN [b1 EXCEPT !.state = OPEN]
        ELSE b1

OnFailureStrict(b, t) ==
    LET b1 == [b EXCEPT !.failure_count = @ + 1, !.last_failure_time = Some(t)]
    IN  IF b1.failure_count > b1.fail_threshold
        THEN [b1 EXCEPT !.state = OPEN]
        ELSE b1

\* CircuitBreaker._on_failure
OnFailure(b, t) ==
    LET b1 == [b EXCEPT !.failure_count = @ + 1, !.last_failure_time = Some(t)]
    IN  IF b1.failure_count >= b1.fail_threshold
        THEN [b1 EXCEPT !.state = OPEN]
        ELSE b1

\* the log events of the breaker, in the order they are emitted
\* CircuitBreaker.state (the property)
StateEvents(b, t) ==
    IF b.state = OPEN /\ ShouldAttemptReset(b, t)
    THEN <<"circuit_breaker_half_open">>
    ELSE <<>>

\* CircuitBreaker._on_success
OnSuccessEvents(b) ==
    IF b.state # CLOSED THEN <<"circuit_breaker_closed">> ELSE <<>>

\* CircuitBreaker._on_failure
OnFailureEvents(b) ==
    <<"circuit_breaker_failure">> \o
    (IF b.failure_count + 1 >= b.fail_threshold
     THEN <<"circuit_breaker_opened">>
     ELSE <<>>)

\* the events that announce a change of state
TransitionEvents ==
    {"circuit_breaker_half_open", "circuit_breaker_closed", "circuit_breaker_opened"}

ReraiseAsOpenError(e) == CircuitBreakerOpenError

\* the bare `raise` of the wrapper's except clauses; an error that matches
\* neither clause propagates the same way
Reraise(e) == e

ResetKeepsState(b) ==
    [b EXCEPT !.failure_count = 0, !.last_failure_time = None]

ResetKeepsCount(b) ==
    [b EXCEPT !.last_failure_time = None, !.state = CLOSED]

\* CircuitBreaker.reset
ResetBreaker(b) ==
    [b EXCEPT !.failure_count = 0, !.last_failure_time = None, !.state = CLOSED]

\* ------------------------------------------------------ fallback chains
\* AIProvider, in the order of the fallback chain of AIService.generate_text
AIPriority == <<"azure_openai", "gemini", "claude">>

\* LLMProvider, in the order of MultiLLMService.generate_with_fallback
LLMPriority == <<"cerebras", "groq", "anthropic", "azure", "gemini">>

Range(s) == {s[i] : i \in DOMAIN s}
Min(S) == CHOOSE x \in S : \A y \in S : x <= y

AIProviders == Range(AIPriority)
LLMProviders == Range(LLMPriority)

\* what a fallback call returned or raised
NoResult == [kind |-> "none", provider |-> "none", error |-> "none", cause |-> None]
Returned(p) == [kind |-> "ok", provider |-> p, error |-> "none", cause |-> None]
Raised(cls, cause) == [kind |-> "error", provider |-> "none", error |-> cls, cause |-> cause]

\* the error a provider's _generate_* method raises
ProviderError(cls, p) == [class |-> cls, provider |-> p]

\* one provider invocation and how it ended ("pending" while in flight)
Attempt(p, how) == [provider |-> p, outcome |-> how]

SettleLeavesPending(att, how) == att

\* the attempts with the outcome of the one in flight filled in
Settle(att, how) == [att EXCEPT ![Len(att)] = Attempt(@.provider, how)]

\* the call's locals at its next await or at its end
Awaiting(j, att, le) ==
    [fpc |-> "awaiting", current |-> j, attempts |-> att, last_error |-> le,
     result |-> NoResult]
Finished(att, le, res) ==
    [fpc |-> "idle", current |-> 0, attempts |-> att, last_error |-> le,
     result |-> res]

\* the global ai_service_breaker
ai_service_breaker ==
    CircuitBreaker(AIServiceFailThreshold, AIServiceRecoveryTimeout, "Exception")

database_breaker ==
    CircuitBreaker(DatabaseFailThreshold, DatabaseRecoveryTimeout, "Exception")

\* ----------------------------------------------- execute_with_retry
\* the exception classes an attempt is seen to raise
DatabaseErrors == {"OperationalError", "ProgrammingError"}

\* the exception raised by the n-th attempt
AttemptError(cls, n) == [class |-> cls, attempt |-> n]

NoRetryResult == [kind |-> "none", error |-> None]
RetryReturned == [kind |-> "ok", error |-> None]
RetryRaised(e) == [kind |-> "error", error |-> Some(e)]

\* `raise last_error` with last_error = None raises TypeError
RaiseLastError(le) ==
    IF le = None THEN RetryRaised(AttemptError("TypeError", 0)) ELSE RetryRaised(le[1])

\* retries = max_retries or settings.database.max_retries
Retries(arg, setting) ==
    IF arg = None \/ arg = Some(0) THEN setting ELSE arg[1]

RecordFirstError(le, e) == IF le = None THEN Some(e) ELSE le

\* last_error = e
RecordError(le, e) == Some(e)

SleepsAfterEveryAttempt(i, n) == TRUE

\* if attempt < retries - 1
SleepsAfter(i, n) == i < n - 1

\* the values of the locals when the for loop goes on with attempt i
ContinueLoop(i, n, le, hist, errs) ==
    IF i < n
    THEN [retries |-> n, attempt |-> i, retry_last_error |-> le, rpc |-> "executing",
          rresult |-> NoRetryResult, history |-> Append(hist, "attempt"), raised |-> errs]
    ELSE [retries |-> n, attempt |-> IF i > 0 THEN i - 1 ELSE 0, retry_last_error |-> le,
          rpc |-> "idle", rresult |-> RaiseLastError(le), history |-> hist, raised |-> errs]

\* no call of execute_with_retry has been made
RetryIdle ==
    /\ max_retries = None
    /\ retries = 0
    /\ attempt = 0
    /\ retry_last_error = None
    /\ rpc = "idle"
    /\ rresult = NoRetryResult
    /\ history = <<>>
    /\ raised = <<>>
    /\ rcalls = 0
    /\ method = "none"

\* DatabaseManager.__init__: no pool yet
PoolIdle ==
    /\ pool = None
    /\ pools_created = 0
    /\ gpc = [c \in Callers |-> "idle"]
    /\ conn_pool = [c \in Callers |-> 0]
    /\ gcalls = 0

\* no call has gone through database_breaker
DatabaseIdle ==
    /\ db = database_breaker
    /\ dpc = "idle"
    /\ dcalls = 0

AILoopTriesUnconfigured(pref, i, att, le) ==
    LET cand == {j \in i..Len(AIPriority) : Some(AIPriority[j]) # pref}
    IN  IF cand = {}
        THEN Finished(att, le, Raised(AIServiceError, le))
        ELSE Awaiting(Min(cand), Append(att, Attempt(AIPriority[Min(cand)], "pending")), le)

\* AIService.generate_text, the loop over `providers` from index i on: the
\* next configured provider other than the preferred one is invoked, and
\* with none left the call raises AIServiceError with details last_error
AILoopFrom(pref, i, att, le) ==
    LET cand == {j \in i..Len(AIPriority) :
                    AIPriority[j] \in configured /\ Some(AIPriority[j]) # pref}
    IN  IF cand = {}
        THEN Finished(att, le, Raised(AIServiceError, le))
        ELSE Awaiting(Min(cand), Append(att, Attempt(AIPriority[Min(cand)], "pending")), le)

\* AIService.generate_text from its entry to the first await: the preferred
\* provider is tried first; _generate_with_provider raises
\* ConfigurationError at once when its client is missing
AIEnter(pref) ==
    IF pref # None
    THEN IF pref[1] \in configured
         THEN Awaiting(0, <<Attempt(pref[1], "pending")>>, None)
         ELSE AILoopFrom(pref, 1, <<Attempt(pref[1], ConfigurationError)>>, None)
    ELSE AILoopFrom(pref, 1, <<>>, None)

\* MultiLLMService.generate_with_fallback, the fallbacks appended after the
\* preferred provider
RECURSIVE AppendFallbacks(_, _, _)
AppendFallbacks(preferred_provider, provs, i) ==
    IF i > Len(LLMPriority) THEN provs
    ELSE LET p == LLMPriority[i] IN
         AppendFallbacks(preferred_provider,
                         IF p # preferred_provider /\ p \notin Range(provs)
                         THEN Append(provs, p) ELSE provs,
                         i + 1)

BuildProvidersKeepsDuplicate(pref) ==
    IF pref # None THEN <<pref[1]>> \o LLMPriority ELSE LLMPriority

\* MultiLLMService.generate_with_fallback, the list `providers`
BuildProviders(pref) ==
    IF pref # None
    THEN AppendFallbacks(pref[1], <<pref[1]>>, 1)
    ELSE LLMPriority

LLMLoopStopsAtFailure(provs, i, att, le) ==
    LET cand == {j \in i..Len(provs) : provs[j] \in configured}
    IN  IF cand = {} \/ i > 1
        THEN Finished(att, le, Raised(ExternalServiceError, le))
        ELSE Awaiting(Min(cand), Append(att, Attempt(provs[Min(cand)], "pending")), le)

\* MultiLLMService.generate_with_fallback, the loop over `providers` from
\* index i on: an unavailable provider falls through its case, and with
\* none left the call raises ExternalServiceError naming last_error
LLMLoopFrom(provs, i, att, le) ==
    LET cand == {j \in i..Len(provs) : provs[j] \in configured}
    IN  IF cand = {}
        THEN Finished(att, le, Raised(ExternalServiceError, le))
        ELSE Awaiting(Min(cand), Append(att, Attempt(provs[Min(cand)], "pending")), le)

\* no fallback call has been made yet
FallbackIdle ==
    /\ fpc = "idle"
    /\ preferred = None
    /\ providers = <<>>
    /\ current = 0
    /\ attempts = <<>>
    /\ last_error = None
    /\ result = NoResult
    /\ waits = 0

\* ------------------------------------------------------------------ Init
Init ==
    /\ \E ft \in 1..MaxThreshold, rt \in 1..MaxTimeout, ex \in ExceptionClasses :
          cb = CircuitBreaker(ft, rt, ex)
    /\ now = 0
    /\ DatabaseIdle
    /\ PoolIdle
    /\ max_retries_setting = DefaultMaxRetries
    /\ RetryIdle
    /\ pc = [c \in Callers |-> "idle"]
    /\ admitted = [c \in Callers |-> "none"]
    /\ outcome = [c \in Callers |-> "none"]
    /\ thrown = [c \in Callers |-> "none"]
    /\ calls = 0
    /\ invocations = 0
    /\ consec = 0
    /\ service = "none"
    /\ configured = {}
    /\ FallbackIdle

\* --------------------------------------------------------------- actions
\* wrapper, lines 117-127: read self.state, reject when OPEN, else start func
Call(c) ==
    /\ pc[c] = "idle"
    /\ calls < MaxCalls
    /\ calls' = calls + 1
    /\ LET b1 == StateProperty(cb, now) IN
       /\ cb' = b1
       /\ IF b1.state = OPEN
          THEN /\ outcome' = [outcome EXCEPT ![c] = CircuitBreakerOpenError]
               /\ admitted' = [admitted EXCEPT ![c] = "none"]
               /\ UNCHANGED <<pc, invocations>>
          ELSE /\ pc' = [pc EXCEPT ![c] = "awaiting"]
               /\ admitted' = [admitted EXCEPT ![c] = b1.state]
               /\ outcome' = [outcome EXCEPT ![c] = "none"]
               /\ invocations' = invocations + 1
    /\ thrown' = [thrown EXCEPT ![c] = "none"]
    /\ UNCHANGED <<now, consec, fvars, dvars, rvars, pvars>>

\* wrapper, lines 127-129: func returned
Return(c) ==
    /\ pc[c] = "awaiting"
    /\ cb' = OnSuccess(cb)
    /\ pc' = [pc EXCEPT ![c] = "idle"]
    /\ outcome' = [outcome EXCEPT ![c] = "ok"]
    /\ consec' = 0
    /\ UNCHANGED <<now, admitted, thrown, calls, invocations, fvars, dvars, rvars, pvars>>

\* wrapper, lines 130-140: func raised e; e propagates in every branch
Raise(c, e) ==
    /\ pc[c] = "awaiting"
    /\ IF IsInstance(e, cb.expected_exception)
       THEN /\ cb' = OnFailure(cb, now)
            /\ consec' = consec + 1
       ELSE UNCHANGED <<cb, consec>>
    /\ pc' = [pc EXCEPT ![c] = "idle"]
    /\ thrown' = [thrown EXCEPT ![c] = e]
    /\ outcome' = [outcome EXCEPT ![c] = Reraise(e)]
    /\ UNCHANGED <<now, admitted, calls, invocations, fvars, dvars, rvars, pvars>>

\* CircuitBreaker.reset(), called by an administrator
Reset ==
    /\ cb' = ResetBreaker(cb)
    /\ consec' = 0
    /\ UNCHANGED <<now, bvars, calls, invocations, fvars, dvars, rvars, pvars>>

\* the clock advances
Tick ==
    /\ now < MaxTime
    /\ now' = now + 1
    /\ UNCHANGED <<cb, bvars, calls, invocations, consec, fvars, dvars, rvars, pvars>>

Next ==
    \/ \E c \in Callers : Call(c)
    \/ \E c \in Callers : Return(c)
    \/ \E c \in Callers, e \in OperationErrors : Raise(c, e)
    \/ Reset
    \/ Tick

Spec == Init /\ [][Next]_vars

\* Guarded calls only: no administrative reset() is issued.
NextCalls ==
    \/ \E c \in Callers : Call(c)
    \/ \E c \in Callers : Return(c)
    \/ \E c \in Callers, e \in OperationErrors : Raise(c, e)
    \/ Tick

SpecCalls == Init /\ [][NextCalls]_vars

\* ------------------------------------------------- fallback call actions
SetLocals(l) ==
    /\ fpc' = l.fpc
    /\ current' = l.current
    /\ attempts' = l.attempts
    /\ last_error' = l.last_error
    /\ result' = l.result

\* the wrapper of ai_service_breaker around generate_text, after the body
\* ran to its next await (l.fpc = "awaiting") or raised AIServiceError
AfterBody(b, l) ==
    IF l.fpc = "idle" /\ IsInstance(l.result.error, b.expected_exception)
    THEN /\ cb' = OnFailure(b, now)
         /\ consec' = consec + 1
    ELSE /\ cb' = b
         /\ UNCHANGED consec

GenerateTextUnguarded(p) ==
    /\ service = "AIService"
    /\ fpc = "idle"
    /\ calls < MaxFallbackCalls
    /\ calls' = calls + 1
    /\ preferred' = p
    /\ invocations' = invocations + 1
    /\ providers' = AIPriority
    /\ SetLocals(AIEnter(p))
    /\ AfterBody(StateProperty(cb, now), AIEnter(p))
    /\ UNCHANGED <<now, bvars, dvars, rvars, pvars, service, configured, waits>>

\* AIService.generate_text(prompt, provider=p) is called: the breaker admits
\* or rejects it, and the body runs to its first await
GenerateText(p) ==
    /\ service = "AIService"
    /\ fpc = "idle"
    /\ calls < MaxFallbackCalls
    /\ calls' = calls + 1
    /\ preferred' = p
    /\ LET b1 == StateProperty(cb, now) IN
       IF b1.state = OPEN
       THEN /\ cb' = b1
            /\ providers' = <<>>
            /\ SetLocals(Finished(<<>>, None, Raised(CircuitBreakerOpenError, None)))
            /\ UNCHANGED <<invocations, consec>>
       ELSE /\ invocations' = invocations + 1
            /\ providers' = AIPriority
            /\ SetLocals(AIEnter(p))
            /\ AfterBody(b1, AIEnter(p))
    /\ UNCHANGED <<now, bvars, dvars, rvars, pvars, service, configured, waits>>

AIProviderReturnsUnrecorded ==
    /\ service = "AIService"
    /\ fpc = "awaiting"
    /\ SetLocals(Finished(Settle(attempts, "ok"), last_error,
                          Returned(attempts[Len(attempts)].provider)))
    /\ UNCHANGED <<cb, consec>>
    /\ UNCHANGED <<now, bvars, dvars, rvars, pvars, calls, invocations, service, configured,
                   preferred, providers, waits>>

\* the provider in flight returned: generate_text returns its text
AIProviderReturns ==
    /\ service = "AIService"
    /\ fpc = "awaiting"
    /\ SetLocals(Finished(Settle(attempts, "ok"), last_error,
                          Returned(attempts[Len(attempts)].provider)))
    /\ cb' = OnSuccess(cb)
    /\ consec' = 0
    /\ UNCHANGED <<now, bvars, dvars, rvars, pvars, calls, invocations, service, configured, preferred,
                   providers, waits>>

\* the provider in flight failed: its _generate_* raised AIServiceError.  The
\* preferred try only logs it; the loop records it as last_error
AIProviderRaises ==
    /\ service = "AIService"
    /\ fpc = "awaiting"
    /\ LET p == attempts[Len(attempts)].provider
           att == Settle(attempts, AIServiceError)
           l == IF current = 0
                THEN AILoopFrom(preferred, 1, att, None)
                ELSE AILoopFrom(preferred, current + 1, att,
                                Some(ProviderError(AIServiceError, p)))
       IN  /\ SetLocals(l)
           /\ AfterBody(cb, l)
    /\ UNCHANGED <<now, bvars, dvars, rvars, pvars, calls, invocations, service, configured, preferred,
                   providers, waits>>

\* MultiLLMService.generate_with_fallback(prompt, preferred_provider=p) is
\* called and runs to its first await
GenerateWithFallback(p) ==
    /\ service = "MultiLLMService"
    /\ fpc = "idle"
    /\ calls < MaxFallbackCalls
    /\ calls' = calls + 1
    /\ preferred' = p
    /\ providers' = BuildProviders(p)
    /\ SetLocals(LLMLoopFrom(BuildProviders(p), 1, <<>>, None))
    /\ UNCHANGED <<cb, now, bvars, dvars, rvars, pvars, invocations, consec, service, configured, waits>>

LLMProviderReturnsContinues ==
    /\ service = "MultiLLMService"
    /\ fpc = "awaiting"
    /\ SetLocals(LLMLoopFrom(providers, current + 1, Settle(attempts, "ok"), last_error))
    /\ UNCHANGED <<cb, now, bvars, dvars, rvars, pvars, calls, invocations, consec, service, configured,
                   preferred, providers, waits>>

\* the provider in flight returned: generate_with_fallback returns its text
LLMProviderReturns ==
    /\ service = "MultiLLMService"
    /\ fpc = "awaiting"
    /\ SetLocals(Finished(Settle(attempts, "ok"), last_error,
                          Returned(providers[current])))
    /\ UNCHANGED <<cb, now, bvars, dvars, rvars, pvars, calls, invocations, consec, service, configured,
                   preferred, providers, waits>>

\* the provider in flight failed: its _generate_* raised ExternalServiceError
LLMProviderRaises ==
    /\ service = "MultiLLMService"
    /\ fpc = "awaiting"
    /\ SetLocals(LLMLoopFrom(providers, current + 1,
                             Settle(attempts, ExternalServiceError),
                             Some(ProviderError(ExternalServiceError, providers[current]))))
    /\ UNCHANGED <<cb, now, bvars, dvars, rvars, pvars, calls, invocations, consec, service, configured,
                   preferred, providers, waits>>

\* no call is made for recovery_timeout seconds
Wait ==
    /\ service = "AIService"
    /\ fpc = "idle"
    /\ waits < MaxWaits
    /\ waits' = waits + 1
    /\ now' = now + cb.recovery_timeout
    /\ UNCHANGED <<cb, bvars, dvars, rvars, pvars, calls, invocations, consec, service, configured, fpc,
                   preferred, providers, current, attempts, last_error, result>>

InitFallback ==
    /\ \/ service = "AIService" /\ configured \in SUBSET AIProviders
       \/ service = "MultiLLMService" /\ configured \in SUBSET LLMProviders
    /\ cb = ai_service_breaker
    /\ now = 0
    /\ DatabaseIdle
    /\ PoolIdle
    /\ max_retries_setting = DefaultMaxRetries
    /\ RetryIdle
    /\ pc = [c \in Callers |-> "idle"]
    /\ admitted = [c \in Callers |-> "none"]
    /\ outcome = [c \in Callers |-> "none"]
    /\ thrown = [c \in Callers |-> "none"]
    /\ calls = 0
    /\ invocations = 0
    /\ consec = 0
    /\ FallbackIdle

NextFallback ==
    \/ \E p \in {None} \cup {Some(x) : x \in AIProviders} : GenerateText(p)
    \/ AIProviderReturns
    \/ AIProviderRaises
    \/ \E p \in {None} \cup {Some(x) : x \in LLMProviders} : GenerateWithFallback(p)
    \/ LLMProviderReturns
    \/ LLMProviderRaises
    \/ Wait

SpecFallback == InitFallback /\ [][NextFallback]_vars

\* ------------------------------------------ two module-level breakers
\* a function decorated with @database_breaker is called: wrapper, 117-127
DatabaseCall ==
    /\ dpc = "idle"
    /\ dcalls < MaxDatabaseCalls
    /\ dcalls' = dcalls + 1
    /\ LET b1 == StateProperty(db, now) IN
       /\ db' = b1
       /\ dpc' = IF b1.state = OPEN THEN "idle" ELSE "awaiting"
    /\ UNCHANGED <<cb, now, calls, invocations, consec, bvars, fvars, rvars, pvars>>

\* wrapper, lines 127-129, on database_breaker
DatabaseReturn ==
    /\ dpc = "awaiting"
    /\ db' = OnSuccess(db)
    /\ dpc' = "idle"
    /\ UNCHANGED <<cb, now, calls, invocations, consec, bvars, fvars, rvars, pvars, dcalls>>

DatabaseRaiseOnSharedBreaker(e) ==
    /\ dpc = "awaiting"
    /\ cb' = IF IsInstance(e, cb.expected_exception) THEN OnFailure(cb, now) ELSE cb
    /\ dpc' = "idle"
    /\ UNCHANGED <<db, now, calls, invocations, consec, bvars, fvars, rvars, pvars, dcalls>>

\* wrapper, lines 130-140, on database_breaker
DatabaseRaise(e) ==
    /\ dpc = "awaiting"
    /\ db' = IF IsInstance(e, db.expected_exception) THEN OnFailure(db, now) ELSE db
    /\ dpc' = "idle"
    /\ UNCHANGED <<cb, now, calls, invocations, consec, bvars, fvars, rvars, pvars, dcalls>>

\* one AIService with at least two providers, next to database_breaker
InitIsolation ==
    /\ InitFallback
    /\ service = "AIService"
    /\ Cardinality(configured) >= 2

NextIsolation ==
    \/ \E p \in {None} \cup {Some(x) : x \in AIProviders} : GenerateText(p)
    \/ AIProviderReturns
    \/ AIProviderRaises
    \/ Wait
    \/ DatabaseCall
    \/ DatabaseReturn
    \/ \E e \in OperationErrors : DatabaseRaise(e)

SpecIsolation == InitIsolation /\ [][NextIsolation]_vars

\* ------------------------------------------ execute_with_retry actions
SetRetryLocals(l) ==
    /\ retries' = l.retries
    /\ attempt' = l.attempt
    /\ retry_last_error' = l.retry_last_error
    /\ rpc' = l.rpc
    /\ rresult' = l.rresult
    /\ history' = l.history
    /\ raised' = l.raised

OtherFrame == UNCHANGED <<cb, now, calls, invocations, consec, bvars, fvars, dvars, pvars>>

RetryFrame == OtherFrame /\ UNCHANGED method

\* execute_with_retry(query, params, max_retries=m) is called and runs to the
\* await of its first attempt
ExecuteWithRetry(m) ==
    /\ rpc = "idle"
    /\ rcalls < MaxRetryCalls
    /\ rcalls' = rcalls + 1
    /\ max_retries' = m
    /\ SetRetryLocals(ContinueLoop(0, Retries(m, max_retries_setting), None, <<>>, <<>>))
    /\ UNCHANGED max_retries_setting
    /\ RetryFrame

\* a repository method that hands its statement to execute_with_retry,
\* without a max_retries argument
ThroughRetry(name) ==
    /\ rpc = "idle"
    /\ rcalls < MaxRetryCalls
    /\ rcalls' = rcalls + 1
    /\ method' = name
    /\ max_retries' = None
    /\ SetRetryLocals(ContinueLoop(0, Retries(None, max_retries_setting), None, <<>>, <<>>))
    /\ UNCHANGED max_retries_setting
    /\ OtherFrame

\* a method that executes its statement itself, inside get_connection, and
\* runs to the await of cursor.execute
Direct(name) ==
    /\ rpc = "idle"
    /\ rcalls < MaxRetryCalls
    /\ rcalls' = rcalls + 1
    /\ method' = name
    /\ rpc' = "direct"
    /\ history' = <<"attempt">>
    /\ raised' = <<>>
    /\ rresult' = NoRetryResult
    /\ UNCHANGED <<max_retries_setting, max_retries, retries, attempt, retry_last_error>>
    /\ OtherFrame

RepositoryCreateWithRetry == ThroughRetry("create")

\* BaseRepository.create
RepositoryCreate == Direct("create")

\* BaseRepository.update
RepositoryUpdate == ThroughRetry("update")

\* BaseRepository.delete (soft or hard)
RepositoryDelete == ThroughRetry("delete")

\* DatabaseManager.fetch_one
FetchOne == Direct("fetch_one")

\* DatabaseManager.fetch_all
FetchAll == Direct("fetch_all")

\* the statement of a direct method was executed: the method returns
DirectReturns ==
    /\ rpc = "direct"
    /\ rpc' = "idle"
    /\ rresult' = RetryReturned
    /\ UNCHANGED <<max_retries_setting, max_retries, retries, attempt, retry_last_error,
                   history, raised, rcalls>>
    /\ RetryFrame

\* the statement of a direct method raised (an Exception, or the task was
\* cancelled): get_connection rolls back and the error propagates
DirectRaises(cls) ==
    /\ rpc = "direct"
    /\ rpc' = "idle"
    /\ raised' = Append(raised, AttemptError(cls, 1))
    /\ rresult' = RetryRaised(AttemptError(cls, 1))
    /\ UNCHANGED <<max_retries_setting, max_retries, retries, attempt, retry_last_error,
                   history, rcalls>>
    /\ RetryFrame

\* the attempt in flight executed the query: return cursor.rowcount
ExecuteReturns ==
    /\ rpc = "executing"
    /\ rpc' = "idle"
    /\ rresult' = RetryReturned
    /\ UNCHANGED <<max_retries_setting, max_retries, retries, attempt, retry_last_error,
                   history, raised, rcalls>>
    /\ RetryFrame

\* the attempt in flight raised an Exception of class cls: it is recorded and
\* logged, and the call sleeps or leaves the loop
ExecuteRaises(cls) ==
    /\ rpc = "executing"
    /\ LET e == AttemptError(cls, attempt + 1)
           le == RecordError(retry_last_error, e)
           errs == Append(raised, e)
       IN  IF SleepsAfter(attempt, retries)
           THEN /\ rpc' = "sleeping"
                /\ retry_last_error' = le
                /\ history' = Append(history, "sleep")
                /\ raised' = errs
                /\ UNCHANGED <<retries, attempt, rresult>>
           ELSE SetRetryLocals(ContinueLoop(attempt + 1, retries, le, history, errs))
    /\ UNCHANGED <<max_retries_setting, max_retries, rcalls>>
    /\ RetryFrame

\* asyncio.sleep(retry_delay) is over: the loop goes on
SleepEnds ==
    /\ rpc = "sleeping"
    /\ SetRetryLocals(ContinueLoop(attempt + 1, retries, retry_last_error, history, raised))
    /\ UNCHANGED <<max_retries_setting, max_retries, rcalls>>
    /\ RetryFrame

\* the task is cancelled at an await: CancelledError is no Exception and
\* leaves the call at once
RetryCancelled ==
    /\ rpc \in {"executing", "sleeping"}
    /\ rpc' = "idle"
    /\ rresult' = RetryRaised(AttemptError(CancelledError, IF rpc = "executing" THEN attempt + 1 ELSE 0))
    /\ raised' = IF rpc = "executing"
                 THEN Append(raised, AttemptError(CancelledError, attempt + 1))
                 ELSE raised
    /\ UNCHANGED <<max_retries_setting, max_retries, retries, attempt, retry_last_error,
                   history, rcalls>>
    /\ RetryFrame

InitRetry ==
    /\ max_retries_setting \in 1..MaxRetries
    /\ RetryIdle
    /\ cb = database_breaker
    /\ now = 0
    /\ DatabaseIdle
    /\ PoolIdle
    /\ pc = [c \in Callers |-> "idle"]
    /\ admitted = [c \in Callers |-> "none"]
    /\ outcome = [c \in Callers |-> "none"]
    /\ thrown = [c \in Callers |-> "none"]
    /\ calls = 0
    /\ invocations = 0
    /\ consec = 0
    /\ service = "none"
    /\ configured = {}
    /\ FallbackIdle

NextRetry ==
    \/ \E m \in {None} \cup {Some(n) : n \in (-1)..MaxRetries} : ExecuteWithRetry(m)
    \/ ExecuteReturns
    \/ \E cls \in DatabaseErrors : ExecuteRaises(cls)
    \/ SleepEnds
    \/ RetryCancelled

SpecRetry == InitRetry /\ [][NextRetry]_vars

\* the repository and manager methods that execute statements
NextRepository ==
    \/ RepositoryCreate
    \/ RepositoryUpdate
    \/ RepositoryDelete
    \/ FetchOne
    \/ FetchAll
    \/ DirectReturns
    \/ \E cls \in DatabaseErrors \cup {CancelledError} : DirectRaises(cls)
    \/ ExecuteReturns
    \/ \E cls \in DatabaseErrors : ExecuteRaises(cls)
    \/ SleepEnds
    \/ RetryCancelled

SpecRepository == InitRetry /\ [][NextRepository]_vars

\* ---------------------------------------------- get_connection actions
PoolFrame ==
    UNCHANGED <<cb, now, calls, invocations, consec, bvars, fvars, dvars, rvars>>

\* get_connection is entered: without a pool the caller awaits create_pool,
\* else it awaits self._pool.acquire()
GetConnection(c) ==
    /\ gpc[c] = "idle"
    /\ gcalls < MaxGetConnections
    /\ gcalls' = gcalls + 1
    /\ IF pool = None
       THEN /\ gpc' = [gpc EXCEPT ![c] = "creating"]
            /\ conn_pool' = [conn_pool EXCEPT ![c] = 0]
       ELSE /\ gpc' = [gpc EXCEPT ![c] = "acquiring"]
            /\ conn_pool' = [conn_pool EXCEPT ![c] = pool[1]]
    /\ UNCHANGED <<pool, pools_created>>
    /\ PoolFrame

\* aiomysql.create_pool returned to caller c: create_pool stores the new pool
\* in self._pool, and get_connection awaits self._pool.acquire()
PoolCreated(c) ==
    /\ gpc[c] = "creating"
    /\ pools_created' = pools_created + 1
    /\ pool' = Some(pools_created + 1)
    /\ gpc' = [gpc EXCEPT ![c] = "acquiring"]
    /\ conn_pool' = [conn_pool EXCEPT ![c] = pools_created + 1]
    /\ UNCHANGED gcalls
    /\ PoolFrame

\* aiomysql.create_pool raised: create_pool logs and re-raises
PoolCreationFails(c) ==
    /\ gpc[c] = "creating"
    /\ gpc' = [gpc EXCEPT ![c] = "idle"]
    /\ UNCHANGED <<pool, pools_created, conn_pool, gcalls>>
    /\ PoolFrame

\* acquire() handed caller c a connection of the pool it was called on
ConnectionAcquired(c) ==
    /\ gpc[c] = "acquiring"
    /\ gpc' = [gpc EXCEPT ![c] = "holding"]
    /\ UNCHANGED <<pool, pools_created, conn_pool, gcalls>>
    /\ PoolFrame

\* the caller leaves the `async with`: the connection goes back to its pool
ReleaseConnection(c) ==
    /\ gpc[c] = "holding"
    /\ gpc' = [gpc EXCEPT ![c] = "idle"]
    /\ UNCHANGED <<pool, pools_created, conn_pool, gcalls>>
    /\ PoolFrame

NextPool ==
    \/ \E c \in Callers : GetConnection(c)
    \/ \E c \in Callers : PoolCreated(c)
    \/ \E c \in Callers : PoolCreationFails(c)
    \/ \E c \in Callers : ConnectionAcquired(c)
    \/ \E c \in Callers : ReleaseConnection(c)

\* one DatabaseManager whose pool does not exist yet
InitPool ==
    /\ InitRetry
    /\ max_retries_setting = DefaultMaxRetries

SpecPool == InitPool /\ [][NextPool]_vars

\* ------------------------------------------------------- step predicates
\* the step is the admission part of a guarded call
IsCallStep == calls' = calls + 1

\* the step is the completion of caller c's operation
Completes(c) == pc[c] = "awaiting" /\ pc'[c] = "idle"

\* less than recovery_timeout has elapsed since the last recorded failure
InCooldown ==
    /\ cb.state = OPEN
    /\ cb.last_failure_time # None
    /\ now - cb.last_failure_time[1] < cb.recovery_timeout

\* recovery_timeout has elapsed since the last recorded failure
CooldownElapsed ==
    /\ cb.state = OPEN
    /\ cb.last_failure_time # None
    /\ now - cb.last_failure_time[1] >= cb.recovery_timeout

TrialsInFlight == {c \in Callers : pc[c] = "awaiting" /\ admitted[c] = HALF_OPEN}

\* C1: a call made while the breaker is Open and inside the cooldown fails
\* with CircuitBreakerOpenError and the wrapped operation is not invoked.
C1_OpenRejectsWithoutInvoking ==
    [][ (IsCallStep /\ InCooldown) =>
          /\ invocations' = invocations
          /\ pc' = pc
          /\ cb' = cb
          /\ \E c \in Callers :
                /\ outcome'[c] = CircuitBreakerOpenError
                /\ \A d \in Callers \ {c} : outcome'[d] = outcome[d] ]_vars

\* threshold 2, two failures, a third call inside the cooldown was rejected
C1_Witness ==
    /\ cb.fail_threshold = 2
    /\ cb.failure_count = 2
    /\ InCooldown
    /\ invocations = 2
    /\ calls = 3
    /\ \E c \in Callers : outcome[c] = CircuitBreakerOpenError

\* C2: from a fresh breaker, fewer than fail_threshold consecutive monitored
\* failures leave the state Closed, and the fail_threshold-th one opens it.
C2_ThresholdProperty ==
    /\ [](consec < cb.fail_threshold => cb.state = CLOSED)
    /\ [][ (consec' = consec + 1 /\ consec' = cb.fail_threshold) =>
            cb'.state = OPEN ]_vars

C2_Witness ==
    /\ cb.fail_threshold = MaxThreshold
    /\ consec = cb.fail_threshold
    /\ cb.state = OPEN

\* C3: Open implies failure_count >= fail_threshold and Closed implies
\* failure_count < fail_threshold, in every reachable state.
C3_StateCountInvariant ==
    /\ cb.state = OPEN => cb.failure_count >= cb.fail_threshold
    /\ cb.state = CLOSED => cb.failure_count < cb.fail_threshold

\* an Open breaker that recorded a late failure of a call admitted earlier
C3_Witness ==
    /\ cb.state = OPEN
    /\ cb.failure_count > cb.fail_threshold

\* C4: at most one trial call (a call admitted in HalfOpen) is in flight.
C4_AtMostOneTrialInFlight == Cardinality(TrialsInFlight) <= 1

\* C5: the first call after the cooldown has elapsed moves the breaker to
\* HalfOpen and invokes the operation; an Open breaker always has a last
\* failure time, so its cooldown does elapse.
C5_RecoveryAdmitsTrial ==
    /\ [](cb.state = OPEN => cb.last_failure_time # None)
    /\ [][ (IsCallStep /\ CooldownElapsed) =>
            /\ cb'.state = HALF_OPEN
            /\ invocations' = invocations + 1
            /\ \E c \in Callers :
                  /\ pc[c] = "idle"
                  /\ pc'[c] = "awaiting"
                  /\ admitted'[c] = HALF_OPEN ]_vars

C5_Witness ==
    /\ cb.state = HALF_OPEN
    /\ Cardinality(TrialsInFlight) = 1
    /\ now - cb.last_failure_time[1] >= cb.recovery_timeout

AllowedTransitions ==
    { <<CLOSED, OPEN>>, <<OPEN, HALF_OPEN>>, <<HALF_OPEN, CLOSED>>, <<HALF_OPEN, OPEN>> }

\* C6: every state change caused by guarded calls is Closed->Open,
\* Open->HalfOpen, HalfOpen->Closed or HalfOpen->Open.
C6_OnlyListedTransitions ==
    [][ cb'.state # cb.state => <<cb.state, cb'.state>> \in AllowedTransitions ]_vars

\* C7: a successful completion leaves failure_count 0, no last failure time
\* and state Closed, whatever state the call was admitted in.
C7_SuccessCloses ==
    [][ \A c \in Callers :
          (Completes(c) /\ outcome'[c] = "ok") =>
             /\ cb'.failure_count = 0
             /\ cb'.last_failure_time = None
             /\ cb'.state = CLOSED ]_vars

\* a trial call succeeded and closed the circuit
C7_Witness ==
    /\ \E c \in Callers : outcome[c] = "ok" /\ admitted[c] = HALF_OPEN /\ pc[c] = "idle"
    /\ cb.state = CLOSED
    /\ cb.failure_count = 0
    /\ TrialsInFlight = {}

\* C8: a trial call admitted in HalfOpen that fails with a monitored error
\* sets the state to Open and last_failure_time to the time of the failure.
C8_TrialFailureReopens ==
    [][ \A c \in Callers :
          ( /\ Completes(c)
            /\ admitted[c] = HALF_OPEN
            /\ IsInstance(outcome'[c], cb.expected_exception) ) =>
             /\ cb'.state = OPEN
             /\ cb'.last_failure_time = Some(now) ]_vars

\* ------------------------------------------------ fallback chain claims
Priority == IF service = "AIService" THEN AIPriority ELSE LLMPriority

\* position of provider p in the fixed priority order
PriorityIndex(p) == Min({i \in DOMAIN Priority : Priority[i] = p})

AttemptedProviders == [i \in DOMAIN attempts |-> attempts[i].provider]

\* the preferred provider of the call was its first invocation
PreferredTriedFirst ==
    /\ preferred # None
    /\ attempts # <<>>
    /\ attempts[1].provider = preferred[1]

\* the invocations made by the fallback loop, in order
LoopAttempts == IF PreferredTriedFirst THEN Tail(attempts) ELSE attempts

\* the available providers other than the preferred one, in priority order
FallbackCandidates ==
    SelectSeq(Priority, LAMBDA x : x \in configured /\ Some(x) # preferred)

AllFailed ==
    /\ fpc = "idle"
    /\ result.kind = "error"
    /\ result.error \in {AIServiceError, ExternalServiceError}

\* C9: the fallback loop invokes the available candidates in priority order,
\* each once, moving on after every failure; it stops at the first success
\* and returns that provider's result, and gives up only when all failed.
C9_FallbackOrder ==
    /\ Len(LoopAttempts) <= Len(FallbackCandidates)
    /\ \A i \in DOMAIN LoopAttempts :
          /\ LoopAttempts[i].provider = FallbackCandidates[i]
          /\ i < Len(LoopAttempts) =>
                LoopAttempts[i].outcome \in {AIServiceError, ExternalServiceError}
    /\ (fpc = "idle" /\ result.kind = "ok") =>
          /\ attempts # <<>>
          /\ attempts[Len(attempts)].outcome = "ok"
          /\ result.provider = attempts[Len(attempts)].provider
    /\ AllFailed =>
          /\ Len(LoopAttempts) = Len(FallbackCandidates)
          /\ \A i \in DOMAIN attempts : attempts[i].outcome # "ok"

\* providers [A, B, C] all available, A and B failed, C succeeded
C9_Witness ==
    /\ preferred = None
    /\ fpc = "idle"
    /\ Len(attempts) = 3
    /\ attempts[1].outcome \in {AIServiceError, ExternalServiceError}
    /\ attempts[2].outcome \in {AIServiceError, ExternalServiceError}
    /\ attempts[3].outcome = "ok"
    /\ AttemptedProviders = SubSeq(Priority, 1, 3)
    /\ result = Returned(Priority[3])

\* C10: a named, available preferred provider is invoked first whatever its
\* priority; it is never invoked again in the call, and the providers after
\* it are invoked in the fixed priority order.
C10_PreferredFirstOnce ==
    (preferred # None /\ attempts # <<>>) =>
       /\ preferred[1] \in configured => attempts[1].provider = preferred[1]
       /\ Cardinality({i \in DOMAIN attempts : attempts[i].provider = preferred[1]}) <= 1
       /\ \A i, j \in 2..Len(attempts) :
             i < j => PriorityIndex(attempts[i].provider) < PriorityIndex(attempts[j].provider)
       /\ AllFailed =>
             \A x \in configured : \E i \in DOMAIN attempts : attempts[i].provider = x

\* the preferred provider is the last of the priority list; it failed and the
\* first two providers of the list were then invoked in order
C10_Witness ==
    /\ preferred = Some(Priority[Len(Priority)])
    /\ Len(attempts) >= 3
    /\ attempts[1] = Attempt(preferred[1], IF service = "AIService" THEN AIServiceError
                                           ELSE ExternalServiceError)
    /\ attempts[2].provider = Priority[1]
    /\ attempts[3].provider = Priority[2]

ProviderFailures == {AIServiceError, ExternalServiceError}

\* the error raised by the last provider invocation of the call
LastAttemptError ==
    ProviderError(attempts[Len(attempts)].outcome, attempts[Len(attempts)].provider)

\* C11: when every candidate failed, the all-providers-failed error carries
\* the error of the last candidate that was attempted, also when that
\* candidate was the preferred provider.
C11_AllFailCarriesLastError ==
    ( /\ AllFailed
      /\ attempts # <<>>
      /\ attempts[Len(attempts)].outcome \in ProviderFailures ) =>
        result.cause = Some(LastAttemptError)

\* C12: a provider invocation that returned is the last invocation of its
\* call, and the call has returned that provider's result.
C12_FirstSuccessWins ==
    \A i \in DOMAIN attempts :
        attempts[i].outcome = "ok" =>
            /\ i = Len(attempts)
            /\ fpc = "idle"
            /\ result = Returned(attempts[i].provider)

\* the second of at least three available candidates succeeded
C12_Witness ==
    /\ preferred = None
    /\ Len(FallbackCandidates) >= 3
    /\ Len(attempts) = 2
    /\ attempts[1].outcome \in ProviderFailures
    /\ attempts[2].outcome = "ok"
    /\ result = Returned(FallbackCandidates[2])

RaisedBy(c, e) == Completes(c) /\ thrown'[c] = e

\* C17: whatever the wrapped operation raises, monitored or not, opening the
\* circuit or not, the caller of the guarded call receives that same error.
C17_ErrorsPropagateUnchanged ==
    /\ [][ \A c \in Callers, e \in OperationErrors :
             RaisedBy(c, e) => outcome'[c] = e ]_vars
    /\ [](\A c \in Callers : thrown[c] # "none" => outcome[c] = thrown[c])

\* a monitored failure that opened the circuit and an unmonitored failure
\* both reached their callers
C17_Witness ==
    /\ cb.expected_exception = MonitoredError
    /\ cb.state = OPEN
    /\ \E c, d \in Callers :
          /\ thrown[c] = MonitoredError /\ outcome[c] = MonitoredError
          /\ thrown[d] = OtherException /\ outcome[d] = OtherException

\* C18: an Exception outside the breaker's monitored class changes neither
\* failure_count nor last_failure_time nor state.
C18_UnmonitoredLeavesBreakerAlone ==
    [][ \A c \in Callers :
          (RaisedBy(c, OtherException) /\ cb.expected_exception = MonitoredError) =>
             cb' = cb ]_vars

\* an unmonitored failure arrived after a monitored one and left its record
C18_Witness ==
    /\ cb.expected_exception = MonitoredError
    /\ cb.failure_count = 1
    /\ cb.last_failure_time = Some(0)
    /\ now > 0
    /\ \E c \in Callers : thrown[c] = OtherException /\ pc[c] = "idle"

\* C19: a guarded call cancelled while its operation is in flight is
\* recorded as a monitored failure.
C19_CancellationCountsAsFailure ==
    [][ \A c \in Callers :
          RaisedBy(c, CancelledError) =>
             /\ cb'.failure_count = cb.failure_count + 1
             /\ cb'.last_failure_time = Some(now) ]_vars

\* C20: every monitored failure adds exactly one to failure_count, in one
\* step, so failure_count is the number of monitored failures reported since
\* the last success or reset.
C20_FailureCountIsExact ==
    /\ [](cb.failure_count = consec)
    /\ [][ \A c \in Callers :
             RaisedBy(c, MonitoredError) =>
                cb'.failure_count = cb.failure_count + 1 ]_vars

\* two calls in flight together both failed
C20_Witness ==
    /\ calls = 2
    /\ \A c \in Callers : thrown[c] = MonitoredError /\ admitted[c] = CLOSED
    /\ cb.failure_count = 2
    /\ cb.fail_threshold = 1

\* ------------------------------------------------ isolation of breakers
\* the step belongs to a call through database_breaker
IsDatabaseStep == dpc' # dpc \/ dcalls' # dcalls

\* the step belongs to a generate_text call
IsAIServiceStep == fpc' # fpc \/ calls' # calls \/ attempts' # attempts

Count(s, x) == Cardinality({i \in DOMAIN s : s[i] = x})

\* the call ended by leaving the loop or returning, not by cancellation
EndedUncancelled ==
    /\ rpc = "idle"
    /\ rresult.kind # "none"
    /\ rresult.kind = "error" => rresult.error[1].class # CancelledError

\* C15: with max_attempts >= 1, a call invokes the operation at most
\* max_attempts times and sleeps at most max_attempts - 1 times; every sleep
\* follows a failed attempt and is followed by another attempt, never the end.
C15_RetryBound ==
    /\ (max_retries # None /\ max_retries # Some(0)) => retries = max_retries[1]
    /\ retries >= 1 =>
        /\ Count(history, "attempt") <= retries
        /\ Count(history, "sleep") <= retries - 1
        /\ Count(history, "attempt") = Len(raised) + (IF rpc = "executing" THEN 1 ELSE 0)
                                                   + (IF rresult.kind = "ok" THEN 1 ELSE 0)
        /\ \A i \in DOMAIN history : history[i] = "sleep" =>
              /\ i > 1 /\ history[i - 1] = "attempt"
              /\ Count(SubSeq(history, 1, i), "attempt") < retries
              /\ i < Len(history) => history[i + 1] = "attempt"
              /\ i = Len(history) => ~ EndedUncancelled

\* three attempts failed with two sleeps between them
C15_Witness ==
    /\ max_retries = Some(MaxRetries)
    /\ EndedUncancelled
    /\ rresult.kind = "error"
    /\ Count(history, "attempt") = MaxRetries
    /\ Count(history, "sleep") = MaxRetries - 1

\* C16: when every attempt of a call failed, the call fails with the error
\* the last attempt raised.
C16_LastErrorRaised ==
    ( /\ rpc = "idle" /\ retries >= 1
      /\ Len(raised) = retries ) =>
        /\ rresult = RetryRaised(raised[Len(raised)])
        /\ raised[Len(raised)].attempt = retries

\* the first and the last of three failed attempts raised different errors
C16_Witness ==
    /\ rpc = "idle"
    /\ retries = MaxRetries
    /\ Len(raised) = retries
    /\ raised[1].class # raised[Len(raised)].class
    /\ raised[Len(raised)].class \in DatabaseErrors
    /\ rresult = RetryRaised(raised[Len(raised)])

\* ------------------------------------------------------ reset and shape
\* the step is an administrative reset() that changed the breaker
IsResetStep == pc' = pc /\ calls' = calls /\ now' = now /\ cb' # cb

\* the breaker this one was created as
Fresh(b) == CircuitBreaker(b.fail_threshold, b.recovery_timeout, b.expected_exception)

\* C26: reset() from any state leaves the breaker as a freshly created one
\* (Closed, failure_count 0, no last failure time), and a guarded call made on
\* that breaker is admitted.
C26_ResetRestoresFresh ==
    /\ [][ IsResetStep => cb' = Fresh(cb) ]_vars
    /\ [][ (cb = Fresh(cb) /\ IsCallStep) =>
              /\ invocations' = invocations + 1
              /\ \E c \in Callers :
                    pc[c] = "idle" /\ pc'[c] = "awaiting" /\ admitted'[c] = CLOSED ]_vars

\* no call ever succeeded and the only completed call failed and opened the
\* circuit, a later call was rejected, then the breaker was reset and admits a
\* call although no time has passed
C26_Witness ==
    /\ cb.fail_threshold = 1
    /\ now = 0
    /\ cb = Fresh(cb)
    /\ calls = 3
    /\ invocations = 2
    /\ \E c, d \in Callers :
          /\ outcome[d] = CircuitBreakerOpenError
          /\ pc[c] = "awaiting" /\ admitted[c] = CLOSED

\* C27: whenever the breaker is Open or HalfOpen its last failure time is set
\* and failure_count >= fail_threshold; so _should_attempt_reset never takes
\* its `no last failure time` branch while Open, and a monitored failure
\* arriving in HalfOpen re-opens the circuit.
C27_OpenShape ==
    /\ [](cb.state \in {OPEN, HALF_OPEN} =>
            cb.last_failure_time # None /\ cb.failure_count >= cb.fail_threshold)
    /\ [][ \A c \in Callers :
             (RaisedBy(c, MonitoredError) /\ cb.state = HALF_OPEN) => cb'.state = OPEN ]_vars

\* HalfOpen with more failures on record than the threshold
C27_Witness ==
    /\ cb.state = HALF_OPEN
    /\ cb.failure_count > cb.fail_threshold
    /\ cb.last_failure_time # None

\* --------------------------------------- the breaker around generate_text
\* a generate_text call ends in this step
AICallEnds == service = "AIService" /\ fpc = "awaiting" /\ fpc' = "idle"

\* C28: ai_service_breaker guards generate_text as one operation: a call in
\* which some provider succeeds is a success and resets failure_count,
\* whatever failed before; a failure is recorded, once, only by a call whose
\* every attempt failed; while the breaker is Open no provider is invoked.
C28_BreakerGuardsWholeChain ==
    /\ [][ (AICallEnds /\ result'.kind = "ok") =>
              /\ cb'.failure_count = 0
              /\ cb'.last_failure_time = None
              /\ cb'.state = CLOSED ]_vars
    /\ [][ (AICallEnds /\ result'.kind = "error") =>
              cb'.failure_count = cb.failure_count + 1 ]_vars
    /\ [][ cb'.failure_count > cb.failure_count =>
              /\ cb'.failure_count = cb.failure_count + 1
              /\ fpc' = "idle" /\ result'.kind = "error"
              /\ \A i \in DOMAIN attempts' : attempts'[i].outcome \notin {"ok", "pending"} ]_vars
    /\ [][ (IsCallStep /\ InCooldown) =>
              attempts' = <<>> /\ invocations' = invocations ]_vars

\* a call succeeded on its third provider after earlier calls had failed
C28_Witness ==
    /\ service = "AIService"
    /\ calls >= 2
    /\ consec = 0
    /\ result.kind = "ok"
    /\ Len(attempts) = 3
    /\ cb.failure_count = 0
    /\ cb.state = CLOSED

\* ------------------------------------------- fallback claims, continued
\* C22: the fallback loop skips a provider that is not available: the loop
\* never invokes it, last_error never holds an error of it, and the loop goes
\* on to the available candidates behind it.
C22_UnavailableSkipped ==
    /\ \A i \in DOMAIN LoopAttempts : LoopAttempts[i].provider \in configured
    /\ last_error # None => last_error[1].provider \in configured
    /\ AllFailed =>
          {LoopAttempts[i].provider : i \in DOMAIN LoopAttempts} =
             {x \in configured : Some(x) # preferred}

\* the second provider of the priority order is unavailable and the loop
\* went from the first to the third
C22_Witness ==
    /\ preferred = None
    /\ Priority[2] \notin configured
    /\ Len(attempts) = 2
    /\ attempts[1] = Attempt(Priority[1], IF service = "AIService" THEN AIServiceError
                                          ELSE ExternalServiceError)
    /\ attempts[2].provider = Priority[3]
    /\ last_error = Some(ProviderError(attempts[1].outcome, Priority[1]))

\* C23: the providers of one fallback call are tried one after another: at
\* most one invocation is in flight, it is the latest one, and every
\* invocation before it has ended in a failure.
C23_StrictlySequential ==
    /\ Cardinality({i \in DOMAIN attempts : attempts[i].outcome = "pending"}) <= 1
    /\ fpc = "awaiting" <=> (attempts # <<>> /\ attempts[Len(attempts)].outcome = "pending")
    /\ \A i \in DOMAIN attempts :
          i < Len(attempts) => attempts[i].outcome \notin {"ok", "pending"}

\* the third provider is in flight after two failures
C23_Witness ==
    /\ fpc = "awaiting"
    /\ Len(attempts) = 3
    /\ attempts[1].outcome \in ProviderFailures
    /\ attempts[2].outcome \in ProviderFailures
    /\ attempts[3].outcome = "pending"

\* ------------------------------------- execute_with_retry, continued
\* C21: an error that is not a transient availability error (here a
\* ProgrammingError, e.g. a malformed statement) propagates on its first
\* occurrence: it is the last error of the call and the call has raised it.
C21_ApplicationErrorNotRetried ==
    \A i \in DOMAIN raised :
        raised[i].class = "ProgrammingError" =>
            /\ i = Len(raised)
            /\ rpc = "idle"
            /\ rresult = RetryRaised(raised[i])

\* C29: a call makes at least one attempt, returns at its first successful
\* attempt with no attempt or sleep after it, and what it raises is an error
\* some attempt raised, never the empty initial last_error.
C29_StopsAtFirstSuccess ==
    /\ rcalls > 0 => Count(history, "attempt") >= 1
    /\ rresult.kind = "ok" =>
          /\ rpc = "idle"
          /\ history[Len(history)] = "attempt"
          /\ Count(history, "attempt") = Len(raised) + 1
    /\ (rpc = "idle" /\ rresult.kind = "error") =>
          /\ raised # <<>>
          /\ rresult.error[1].class # "TypeError"

\* ------------------------------------------------- where retry applies
DirectMethods == {"create", "fetch_one", "fetch_all"}
RetriedMethods == {"update", "delete"}

\* C24: update and delete run their statement through execute_with_retry
\* (a failed attempt is repeated up to the configured number of attempts),
\* while create, fetch_one and fetch_all execute their statement at most once
\* per call and never sleep.
C24_RetryOnlyForUpdateDelete ==
    /\ method \in DirectMethods =>
          /\ Len(history) <= 1
          /\ Count(history, "sleep") = 0
          /\ (rpc = "idle" /\ raised # <<>>) => rresult = RetryRaised(raised[1])
    /\ method \in RetriedMethods =>
          /\ retries = max_retries_setting
          /\ (rpc = "idle" /\ rresult.kind = "error"
                /\ rresult.error[1].class # CancelledError) =>
                Count(history, "attempt") = max_retries_setting

\* an INSERT failed once and was not repeated although retries are configured
C24_Witness ==
    /\ method = "create"
    /\ max_retries_setting >= 2
    /\ rpc = "idle"
    /\ history = <<"attempt">>
    /\ rresult.kind = "error"
    /\ rresult.error[1].class = "OperationalError"

\* ---------------------------------------------------------- log events
\* the events the breaker emits in this step of a guarded call
StepEvents ==
    IF IsCallStep THEN StateEvents(cb, now)
    ELSE IF \E c \in Callers : Completes(c) /\ outcome'[c] = "ok" THEN OnSuccessEvents(cb)
    ELSE IF \E c \in Callers : Completes(c) /\ IsInstance(thrown'[c], cb.expected_exception)
         THEN OnFailureEvents(cb)
    ELSE <<>>

\* C25: a step that changes the breaker's state emits exactly one transition
\* event, and a step that leaves the state as it was emits none.
C25_OneEventPerTransition ==
    [][ LET n == Cardinality({i \in DOMAIN StepEvents : StepEvents[i] \in TransitionEvents})
        IN  /\ cb'.state # cb.state => n = 1
            /\ cb'.state = cb.state => n = 0 ]_vars

\* ------------------------------------------------------ connection pool
\* C30: however concurrent get_connection calls interleave, the pool is
\* created at most once and all callers hold connections of the same pool.
C30_PoolCreatedOnce ==
    /\ pools_created <= 1
    /\ \A c, d \in Callers :
          (gpc[c] = "holding" /\ gpc[d] = "holding") => conn_pool[c] = conn_pool[d]

====
